---- MODULE Spec2Model ----
(***************************************************************************)
(* Model of screen-time-stats (src/main.rs): the daily aggregation         *)
(* analyze_usage, the weekly roll-up analyze_weekly_usage and the          *)
(* interactive loop run_tui driven from main.                              *)
(*                                                                         *)
(* Instants are whole seconds since the Unix epoch (the query builds them  *)
(* with DateTime::from_timestamp(secs, 0)).  A DateTime<Local> is the      *)
(* record [instant, offset]: the instant is kept by with_timezone, the     *)
(* offset is what date_naive() adds before it cuts the calendar day.       *)
(* A NaiveDate is a day number (days since 1970-01-01).  A Duration is a   *)
(* signed number of seconds.  A HashMap is a function on its key set.      *)
(***************************************************************************)
EXTENDS Integers, Sequences, FiniteSets

VARIABLES
    pc,               \* position in main / run_tui
    data,             \* Vec<UsageData> returned by query_database
    utc_offset,       \* offset of the Local timezone, seconds east of UTC
    now,              \* Local::now() as an instant
    daily_analysis,   \* Vec<(NaiveDate, DailyUsage)>
    weekly_analysis,  \* Vec<(u32, WeeklyUsage)>
    selected_tab,     \* 0 = Daily, 1 = Weekly
    selected_index,   \* row selected in the active tab
    terminal,         \* "original" | "raw": mode of the terminal
    backend,          \* the last backend call and what it returned
    result            \* what run_tui returned: "none" | "Ok" | "Err"

vars == <<pc, data, utc_offset, now, daily_analysis, weekly_analysis,
          selected_tab, selected_index, terminal, backend, result>>

----------------------------------------------------------------------------
(* Bounds of the explored inputs *)

MaxEvents == 3      \* rows returned by the query
MaxTick == 3        \* the fine grid has MaxTick + 1 instants
MaxDayOff == 3      \* days of the coarse grid after its first day

(* Program and calendar constants *)

BreakMinutes == 10          \* Duration::minutes(10)
SecsPerMinute == 60
SecsPerDay == 86400
DaysPerWeek == 7
EpochWeekday == 3           \* day number 0, 1970-01-01, is a Thursday

BreakThreshold == BreakMinutes * SecsPerMinute

----------------------------------------------------------------------------
(* chrono *)

\* DateTime<Utc>::date_naive(): calendar day of an instant in UTC
DateNaiveUtc(t) == t \div SecsPerDay

\* DateTime<Utc>::with_timezone(&Local)
WithTimezoneLocal(t, off) == [instant |-> t, offset |-> off]

\* DateTime<Local>::date_naive(): calendar day on the local clock
DateNaiveLocal(dt) == (dt.instant + dt.offset) \div SecsPerDay

\* DateTime::signed_duration_since
SignedDurationSince(a, b) == a.instant - b.instant

\* NaiveDate::weekday().num_days_from_monday()
NumDaysFromMonday(d) == (d + EpochWeekday) % DaysPerWeek

IsLeap(y) == (y % 4 = 0 /\ y % 100 # 0) \/ y % 400 = 0

\* civil year and 0-based day of that year of day number d, by the cycle of
\* 400 Gregorian years (146097 days) counted from a 1 March
YearOf(d) ==
    LET z == d + 719468
        era == z \div 146097
        doe == z - era * 146097
        yoe == (doe - doe \div 1460 + doe \div 36524 - doe \div 146096) \div 365
        doy == doe - (365 * yoe + yoe \div 4 - yoe \div 100)
        y == yoe + era * 400
    IN  IF doy >= 306 THEN [year |-> y + 1, ordinal0 |-> doy - 306]
        ELSE [year |-> y, ordinal0 |-> doy + 59 + (IF IsLeap(y) THEN 1 ELSE 0)]

\* NaiveDate::iso_week().week(): the week of the year that holds the
\* Thursday of the date's Monday-based week
IsoWeek(d) ==
    LET thursday == d - NumDaysFromMonday(d) + 3
    IN  (YearOf(thursday).ordinal0 \div DaysPerWeek) + 1

----------------------------------------------------------------------------
(* Sequences *)

RECURSIVE SumSeq(_, _)
SumSeq(s, i) == IF i > Len(s) THEN 0 ELSE s[i] + SumSeq(s, i + 1)

----------------------------------------------------------------------------
(* analyze_usage *)

NoApps == [a \in {} |-> 0]

\* DailyUsage { first_usage, last_usage, ..Default::default() }
NewDailyUsage(first_usage, last_usage) ==
    [total_usage |-> 0, first_usage |-> first_usage, last_usage |-> last_usage,
     per_app_usage |-> NoApps, breaks |-> <<>>, net_active_time |-> 0]

\* *map.entry(app).or_insert(0) += amount
AddAppUsage(per_app, app, amount) ==
    [a \in DOMAIN per_app \cup {app} |->
        (IF a \in DOMAIN per_app THEN per_app[a] ELSE 0)
        + (IF a = app THEN amount ELSE 0)]

\* the bucket an entry is added to
BucketDate(entry) == DateNaiveUtc(entry.start_time)

AccumulateEntry_first_kept(daily_usage, entry, off) ==
    LET date == BucketDate(entry)
        first_usage == WithTimezoneLocal(entry.start_time, off)
        last_usage == WithTimezoneLocal(entry.end_time, off)
        old == IF date \in DOMAIN daily_usage THEN daily_usage[date]
               ELSE NewDailyUsage(first_usage, last_usage)
        upd == [old EXCEPT
                  !.total_usage = @ + entry.usage,
                  !.per_app_usage = AddAppUsage(@, entry.app, entry.usage),
                  !.last_usage = IF last_usage.instant > @.instant
                                 THEN last_usage ELSE @]
    IN  [d \in DOMAIN daily_usage \cup {date} |->
            IF d = date THEN upd ELSE daily_usage[d]]

\* one pass of the first loop: the entry is added to the bucket of its date
AccumulateEntry(daily_usage, entry, off) ==
    LET date == BucketDate(entry)
        first_usage == WithTimezoneLocal(entry.start_time, off)
        last_usage == WithTimezoneLocal(entry.end_time, off)
        old == IF date \in DOMAIN daily_usage THEN daily_usage[date]
               ELSE NewDailyUsage(first_usage, last_usage)
        upd == [old EXCEPT
                  !.total_usage = @ + entry.usage,
                  !.per_app_usage = AddAppUsage(@, entry.app, entry.usage),
                  !.first_usage = IF first_usage.instant < @.instant
                                  THEN first_usage ELSE @,
                  !.last_usage = IF last_usage.instant > @.instant
                                 THEN last_usage ELSE @]
    IN  [d \in DOMAIN daily_usage \cup {date} |->
            IF d = date THEN upd ELSE daily_usage[d]]

RECURSIVE AccumulateFrom(_, _, _, _)
AccumulateFrom(entries, i, daily_usage, off) ==
    IF i > Len(entries) THEN daily_usage
    ELSE AccumulateFrom(entries, i + 1,
                        AccumulateEntry(daily_usage, entries[i], off), off)

\* the sessions pushed for one date, in the order of the input
RECURSIVE SessionsFrom(_, _, _, _)
SessionsFrom(entries, i, date, off) ==
    IF i > Len(entries) THEN <<>>
    ELSE LET rest == SessionsFrom(entries, i + 1, date, off)
             e == entries[i]
         IN  IF BucketDate(e) = date
             THEN <<[start |-> WithTimezoneLocal(e.start_time, off),
                     end |-> WithTimezoneLocal(e.end_time, off)]>> \o rest
             ELSE rest

\* the sort key of a session: |(start, _)| *start
SessionStart(s) == s.start.instant

\* insert x into the sorted sequence s after every element whose key is
\* not greater (what keeps the sort stable)
RECURSIVE InsertSession(_, _)
InsertSession(s, x) ==
    IF s = <<>> THEN <<x>>
    ELSE IF SessionStart(s[Len(s)]) <= SessionStart(x) THEN Append(s, x)
    ELSE Append(InsertSession(SubSeq(s, 1, Len(s) - 1), x), s[Len(s)])

RECURSIVE SortSessionsFrom(_, _, _)
SortSessionsFrom(s, i, acc) ==
    IF i > Len(s) THEN acc
    ELSE SortSessionsFrom(s, i + 1, InsertSession(acc, s[i]))

\* sessions.sort_by_key(|(start, _)| *start): ascending, stable
SortSessions(sessions) == SortSessionsFrom(sessions, 1, <<>>)

IsBreak_inclusive(break_duration) == break_duration >= BreakThreshold

\* whether a gap is recorded as a break
IsBreak(break_duration) == break_duration > BreakThreshold

\* the loop over adjacent sessions, from index i (1-based: 2 .. len)
RECURSIVE BreaksFrom(_, _)
BreaksFrom(sessions, i) ==
    IF i > Len(sessions) THEN <<>>
    ELSE LET prev_end == sessions[i - 1].end
             current_start == sessions[i].start
             break_duration == SignedDurationSince(current_start, prev_end)
             rest == BreaksFrom(sessions, i + 1)
         IN  IF IsBreak(break_duration)
             THEN <<[start |-> prev_end, end |-> current_start,
                     duration |-> break_duration]>> \o rest
             ELSE rest

DetectBreaks(sessions) == BreaksFrom(sessions, 2)

TotalBreakDuration(breaks) ==
    SumSeq([i \in 1..Len(breaks) |-> breaks[i].duration], 1)

NetActiveTime_clamped(usage, breaks) ==
    LET net == SignedDurationSince(usage.last_usage, usage.first_usage)
               - TotalBreakDuration(breaks)
    IN  IF net < 0 THEN 0 ELSE net

\* usage.net_active_time = last - first - total_break_duration
NetActiveTime(usage, breaks) ==
    SignedDurationSince(usage.last_usage, usage.first_usage)
    - TotalBreakDuration(breaks)

\* second loop, for one date of the map
WithBreaks(entries, date, usage, off) ==
    LET breaks == DetectBreaks(SortSessions(SessionsFrom(entries, 1, date, off)))
    IN  [usage EXCEPT !.breaks = breaks,
                      !.net_active_time = NetActiveTime(usage, breaks)]

\* the keys of a map, largest first: sort_by_key(Reverse(key))
RECURSIVE Descending(_)
Descending(keys) ==
    IF keys = {} THEN <<>>
    ELSE LET m == CHOOSE k \in keys : \A o \in keys : o <= k
         IN  <<m>> \o Descending(keys \ {m})

analyze_usage(entries, off) ==
    LET daily_usage == AccumulateFrom(entries, 1, <<>>, off)
        order == Descending(DOMAIN daily_usage)
    IN  [i \in 1..Len(order) |->
            [date |-> order[i],
             usage |-> WithBreaks(entries, order[i], daily_usage[order[i]], off)]]

----------------------------------------------------------------------------
(* analyze_weekly_usage *)

\* for (app, time) in &usage.per_app_usage { *entry(app).or_insert(0) += time }
MergeAppUsage(into, from) ==
    [a \in DOMAIN into \cup DOMAIN from |->
        (IF a \in DOMAIN into THEN into[a] ELSE 0)
        + (IF a \in DOMAIN from THEN from[a] ELSE 0)]

\* WeeklyUsage { first_day, is_current_week, ..Default::default() }
NewWeeklyUsage(first_day, is_current_week) ==
    [total_usage |-> 0, net_active_hours |-> 0, per_app_usage |-> NoApps,
     first_day |-> first_day, is_current_week |-> is_current_week]

\* the key a day is rolled up under
WeekKey(date) == IsoWeek(date)

AddTotal_overwrite(week_total, day_total) == day_total

\* the roll-up of two totals
AddTotal(week_total, day_total) == week_total + day_total

\* one pass of the loop over the daily entries
AccumulateDay(weekly_usage, day, current_week) ==
    LET week == WeekKey(day.date)
        first_day == day.date - NumDaysFromMonday(day.date)
        old == IF week \in DOMAIN weekly_usage THEN weekly_usage[week]
               ELSE NewWeeklyUsage(first_day, week = current_week)
        upd == [old EXCEPT
                  !.total_usage = AddTotal(@, day.usage.total_usage),
                  !.net_active_hours = @ + day.usage.net_active_time,
                  !.per_app_usage = MergeAppUsage(@, day.usage.per_app_usage)]
    IN  [w \in DOMAIN weekly_usage \cup {week} |->
            IF w = week THEN upd ELSE weekly_usage[w]]

RECURSIVE AccumulateDaysFrom(_, _, _, _)
AccumulateDaysFrom(daily, i, weekly_usage, current_week) ==
    IF i > Len(daily) THEN weekly_usage
    ELSE AccumulateDaysFrom(daily, i + 1,
             AccumulateDay(weekly_usage, daily[i], current_week), current_week)

analyze_weekly_usage(daily, local_now) ==
    LET current_week == IsoWeek(DateNaiveLocal(local_now))
        weekly_usage == AccumulateDaysFrom(daily, 1, <<>>, current_week)
        order == Descending(DOMAIN weekly_usage)
    IN  [i \in 1..Len(order) |->
            [week |-> order[i], usage |-> weekly_usage[order[i]]]]

----------------------------------------------------------------------------
(* run_tui: key handling *)

KeyCodes == {"Left", "Right", "Up", "Down", "Esc", "q", "Enter"}

\* what event::read() can return: a key press, another event, or an error
ReadResults ==
    [ok : {TRUE}, kind : {"Key"}, code : KeyCodes]
    \cup {[ok |-> TRUE, kind |-> "Resize", code |-> "none"],
          [ok |-> FALSE, kind |-> "none", code |-> "none"]}

\* usize::saturating_sub(1)
SaturatingSub1(n) == IF n = 0 THEN 0 ELSE n - 1

\* max_index of the Down arm
MaxIndex(tab, daily_len, weekly_len) ==
    IF tab = 0 THEN SaturatingSub1(daily_len) ELSE SaturatingSub1(weekly_len)

OnUp_unguarded(index) == index - 1

\* KeyCode::Up arm
OnUp(index) == IF index > 0 THEN index - 1 ELSE index

OnDown_inclusive(tab, index, daily_len, weekly_len) ==
    IF index <= MaxIndex(tab, daily_len, weekly_len) THEN index + 1 ELSE index

\* KeyCode::Down arm
OnDown(tab, index, daily_len, weekly_len) ==
    IF index < MaxIndex(tab, daily_len, weekly_len) THEN index + 1 ELSE index

\* KeyCode::Left and KeyCode::Right arms: the tab and the row they select
OnTab(code) == [tab |-> IF code = "Left" THEN 0 ELSE 1, index |-> 0]

\* the match on key.code: the state it leaves and whether it breaks the loop
OnKey(tab, index, code, daily_len, weekly_len) ==
    CASE code \in {"Left", "Right"} ->
            [tab |-> OnTab(code).tab, index |-> OnTab(code).index, quit |-> FALSE]
      [] code = "Up" ->
            [tab |-> tab, index |-> OnUp(index), quit |-> FALSE]
      [] code = "Down" ->
            [tab |-> tab, index |-> OnDown(tab, index, daily_len, weekly_len),
             quit |-> FALSE]
      [] code \in {"Esc", "q"} ->
            [tab |-> tab, index |-> index, quit |-> TRUE]
      [] OTHER ->
            [tab |-> tab, index |-> index, quit |-> FALSE]

\* if let Ok(event) = event::read() { if let Event::Key(key) = event { .. } }
OnRead(tab, index, r, daily_len, weekly_len) ==
    IF r.ok /\ r.kind = "Key"
    THEN OnKey(tab, index, r.code, daily_len, weekly_len)
    ELSE [tab |-> tab, index |-> index, quit |-> FALSE]

----------------------------------------------------------------------------
(* Inputs: what query_database can return *)

\* day number of the day with 0-based ordinal ordinal0 in year y
DayNumber(y, ordinal0) ==
    LET p == y - 1
        era == p \div 400
        yoe == p - era * 400
    IN  era * 146097 + (yoe * 365 + yoe \div 4 - yoe \div 100 + 306) - 719468 + ordinal0

\* a row of the query: usage is the column ZENDDATE - ZSTARTDATE
Row(app, start_time, end_time) ==
    [app |-> app, usage |-> end_time - start_time,
     start_time |-> start_time, end_time |-> end_time]

\* the fine grid: the instants 5, 15, 30, 50, .. minutes before the midnight
\* UTC that ends 2024-12-29, so that gaps of 10 (the threshold), 15 and 20
\* minutes lie next to each other
TickSecs == 5 * SecsPerMinute
FineDay == DayNumber(2024, 363)
Midnight == (FineDay + 1) * SecsPerDay
BeforeMidnight(j) == ((j * (j + 1)) \div 2) * TickSecs
FineInstants == {Midnight - BeforeMidnight(j) : j \in 1..(MaxTick + 1)}

\* sessions of one app that start and end anywhere on the fine grid (they
\* overlap, touch, leave gaps, and end before they start), and a session of
\* another app that starts at that midnight, on the next day
FineRows ==
    {Row("Browser", s, e) : s \in FineInstants, e \in FineInstants}
    \cup {Row("Editor", Midnight, Midnight + TickSecs)}

\* the coarse grid: the days from Saturday 2023-12-30 on (the ISO week
\* changes on Monday 2024-01-01), and the days 52 weeks later
CoarseDay0 == DayNumber(2023, 363)
CoarseDays ==
    {CoarseDay0 + a + 52 * DaysPerWeek * b : a \in 0..MaxDayOff, b \in {0, 1}}
Noon(day) == day * SecsPerDay + SecsPerDay \div 2

\* an hour of one app or half an hour of the other, from noon of a day of
\* the coarse grid
CoarseRows ==
    {Row("Browser", Noon(d), Noon(d) + 60 * SecsPerMinute) : d \in CoarseDays}
    \cup {Row("Editor", Noon(d), Noon(d) + 30 * SecsPerMinute) : d \in CoarseDays}

\* one session of an hour on each of the first days of the coarse grid
PlainRows ==
    {Row("Browser", Noon(CoarseDay0 + a), Noon(CoarseDay0 + a) + 60 * SecsPerMinute) :
        a \in 0..MaxDayOff}

\* whether row r may follow the rows of s under ORDER BY ZSTARTDATE DESC
\* (rows with the same start come in either order)
QueryOrdered(s, r) == s = <<>> \/ s[Len(s)].start_time >= r.start_time

\* the results of at most n rows
RECURSIVE Ordered(_, _)
Ordered(rows, n) ==
    IF n = 0 THEN {<<>>}
    ELSE LET shorter == Ordered(rows, n - 1)
         IN  shorter \cup
             UNION {{Append(s, r) : r \in {q \in rows : QueryOrdered(s, q)}} :
                       s \in {t \in shorter : Len(t) = n - 1}}

QueryResults(rows) == Ordered(rows, MaxEvents)

Offsets == {-60 * SecsPerMinute, 0, 60 * SecsPerMinute}

\* Local::now(): the program runs on the last day of the coarse grid
NowInstant == Noon(CoarseDay0 + MaxDayOff + 52 * DaysPerWeek) + 1

----------------------------------------------------------------------------
(* main and run_tui *)

NoCall == [call |-> "none", ok |-> TRUE, kind |-> "none", code |-> "none"]

InitWith(inputs) ==
    /\ pc = "analyze_usage"
    /\ data \in inputs
    /\ utc_offset \in Offsets
    /\ now = NowInstant
    /\ daily_analysis = <<>>
    /\ weekly_analysis = <<>>
    /\ selected_tab = 0
    /\ selected_index = 0
    /\ terminal = "original"
    /\ backend = NoCall
    /\ result = "none"

Init == InitWith(QueryResults(FineRows))

InitWeekly == InitWith(QueryResults(CoarseRows))

InitTui == InitWith(QueryResults(PlainRows))

\* let daily_analysis = analyze_usage(data);
AnalyzeUsage ==
    /\ pc = "analyze_usage"
    /\ daily_analysis' = analyze_usage(data, utc_offset)
    /\ pc' = "analyze_weekly_usage"
    /\ UNCHANGED <<data, utc_offset, now, weekly_analysis, selected_tab,
                   selected_index, terminal, backend, result>>

\* let weekly_analysis = analyze_weekly_usage(&daily_analysis);
AnalyzeWeeklyUsage ==
    /\ pc = "analyze_weekly_usage"
    /\ weekly_analysis' =
          analyze_weekly_usage(daily_analysis, WithTimezoneLocal(now, utc_offset))
    /\ pc' = "run_tui"
    /\ UNCHANGED <<data, utc_offset, now, daily_analysis, selected_tab,
                   selected_index, terminal, backend, result>>

\* let mut terminal = ratatui::init(); selected_tab = 0; selected_index = 0;
TuiInit ==
    /\ pc = "run_tui"
    /\ terminal' = "raw"
    /\ selected_tab' = 0
    /\ selected_index' = 0
    /\ pc' = "draw"
    /\ UNCHANGED <<data, utc_offset, now, daily_analysis, weekly_analysis,
                   backend, result>>

\* terminal.draw(..)? succeeds
DrawOk ==
    /\ pc = "draw"
    /\ backend' = [call |-> "draw", ok |-> TRUE, kind |-> "none", code |-> "none"]
    /\ pc' = "read"
    /\ UNCHANGED <<data, utc_offset, now, daily_analysis, weekly_analysis,
                   selected_tab, selected_index, terminal, result>>

\* terminal.draw(..)? fails: the ? returns the error at once
DrawErr ==
    /\ pc = "draw"
    /\ backend' = [call |-> "draw", ok |-> FALSE, kind |-> "none", code |-> "none"]
    /\ result' = "Err"
    /\ pc' = "returned"
    /\ UNCHANGED <<data, utc_offset, now, daily_analysis, weekly_analysis,
                   selected_tab, selected_index, terminal>>

\* event::read() returns r and the match runs
ReadEvent(r) ==
    /\ pc = "read"
    /\ LET next == OnRead(selected_tab, selected_index, r,
                          Len(daily_analysis), Len(weekly_analysis))
       IN  /\ selected_tab' = next.tab
           /\ selected_index' = next.index
           /\ pc' = IF next.quit THEN "restore" ELSE "draw"
    /\ backend' = [call |-> "read", ok |-> r.ok, kind |-> r.kind, code |-> r.code]
    /\ UNCHANGED <<data, utc_offset, now, daily_analysis, weekly_analysis,
                   terminal, result>>

\* ratatui::restore(); Ok(())
Restore ==
    /\ pc = "restore"
    /\ terminal' = "original"
    /\ result' = "Ok"
    /\ pc' = "returned"
    /\ UNCHANGED <<data, utc_offset, now, daily_analysis, weekly_analysis,
                   selected_tab, selected_index, backend>>

\* if let Err(e) = run_tui(..) { eprintln!(..) }, and main ends
MainEnd ==
    /\ pc = "returned"
    /\ pc' = IF result = "Err" THEN "exited_reported" ELSE "exited"
    /\ UNCHANGED <<data, utc_offset, now, daily_analysis, weekly_analysis,
                   selected_tab, selected_index, terminal, backend, result>>

Next ==
    \/ AnalyzeUsage
    \/ AnalyzeWeeklyUsage

NextTui ==
    \/ AnalyzeUsage
    \/ AnalyzeWeeklyUsage
    \/ TuiInit
    \/ DrawOk
    \/ DrawErr
    \/ \E r \in ReadResults : ReadEvent(r)
    \/ Restore
    \/ MainEnd

Spec == Init /\ [][Next]_vars

SpecWeekly == InitWeekly /\ [][Next]_vars

SpecTui == InitTui /\ [][NextTui]_vars

----------------------------------------------------------------------------
(* Properties *)

Analyzed == pc # "analyze_usage"

InLoop == pc \in {"draw", "read", "restore"}

Days == 1..Len(daily_analysis)

Weeks == 1..Len(weekly_analysis)

\* the rows of the input that the daily entry of a date was built from
BucketOf(date) == {k \in 1..Len(data) : BucketDate(data[k]) = date}

WellFormed(rows) == \A k \in 1..Len(rows) : rows[k].end_time >= rows[k].start_time

\* the sum of f over the set keys
RECURSIVE SumOver(_, _)
SumOver(keys, f) ==
    IF keys = {} THEN 0
    ELSE LET x == CHOOSE y \in keys : TRUE
         IN  f[x] + SumOver(keys \ {x}, f)

ActiveCount ==
    IF selected_tab = 0 THEN Len(daily_analysis) ELSE Len(weekly_analysis)

\* C1: while run_tui loops, selected_index is an index of the active tab's
\* sequence, and it is 0 when that sequence is empty.
C1_SelectedIndexValid ==
    InLoop =>
        IF ActiveCount = 0 THEN selected_index = 0
        ELSE selected_index \in 0..(ActiveCount - 1)

\* Down was pressed on the last row of the weekly tab, which is not row 0
C1_Witness ==
    /\ pc = "draw" /\ backend.call = "read" /\ backend.code = "Down"
    /\ selected_tab = 1
    /\ selected_index = Len(weekly_analysis) - 1
    /\ selected_index > 0

\* C2: whenever run_tui has returned, the terminal is back in its original
\* mode.
C2_TerminalRestoredOnReturn ==
    pc \in {"returned", "exited", "exited_reported"} => terminal = "original"

\* C3: once a backend call has failed, the loop is over and the failure is
\* what run_tui returns.
C3_BackendFailureEndsLoop ==
    ~backend.ok => (~InLoop /\ result = "Err")

\* C4: every daily entry is keyed by the local calendar date of the events
\* in it: each event's local start date is the key of an entry, and each
\* entry's key is the local date of its first_usage.
C4_KeyIsLocalDate ==
    Analyzed =>
        /\ \A k \in 1..Len(data) : \E i \in Days :
              /\ daily_analysis[i].date =
                    DateNaiveLocal(WithTimezoneLocal(data[k].start_time, utc_offset))
              /\ k \in BucketOf(daily_analysis[i].date)
        /\ \A i \in Days :
              daily_analysis[i].date = DateNaiveLocal(daily_analysis[i].usage.first_usage)

BreaksLong(breaks) ==
    \A j \in 1..Len(breaks) :
        /\ breaks[j].duration > BreakMinutes * SecsPerMinute
        /\ breaks[j].duration = breaks[j].end.instant - breaks[j].start.instant

BreaksDisjoint(breaks) ==
    \A j \in 2..Len(breaks) : breaks[j].start.instant >= breaks[j - 1].end.instant

BreaksOrderedByEnd(breaks) ==
    \A j \in 2..Len(breaks) : breaks[j].end.instant >= breaks[j - 1].end.instant

\* C5 as stated: for every input, every day's breaks are longer than 10
\* minutes and each starts at or after the end of the one before it.
C5_BreaksDisjointForEveryInput ==
    Analyzed =>
        \A i \in Days :
            /\ BreaksLong(daily_analysis[i].usage.breaks)
            /\ BreaksDisjoint(daily_analysis[i].usage.breaks)

\* C5 amended: for every input, every day's breaks are longer than 10
\* minutes and ordered by their ends; each starts at or after the end of the
\* one before it when no event ends before it starts.
C5_BreaksLongAndDisjointIfWellFormed ==
    Analyzed =>
        \A i \in Days :
            /\ BreaksLong(daily_analysis[i].usage.breaks)
            /\ BreaksOrderedByEnd(daily_analysis[i].usage.breaks)
            /\ WellFormed(data) => BreaksDisjoint(daily_analysis[i].usage.breaks)

\* a day with two breaks, from events none of which ends before it starts
C5_Witness ==
    /\ Analyzed /\ WellFormed(data)
    /\ \E i \in Days : Len(daily_analysis[i].usage.breaks) = 2

\* C6: for every day, net_active_time is last_usage - first_usage minus the
\* durations of the day's breaks, where first_usage is the least start and
\* last_usage the greatest end of the events of the day's bucket.
C6_NetActiveTimeExact ==
    Analyzed =>
        \A i \in Days :
            LET u == daily_analysis[i].usage
                bucket == BucketOf(daily_analysis[i].date)
                total == SumOver(DOMAIN u.breaks,
                                 [j \in DOMAIN u.breaks |-> u.breaks[j].duration])
            IN  /\ bucket # {}
                /\ \E k \in bucket : data[k].start_time = u.first_usage.instant
                /\ \A k \in bucket : data[k].start_time >= u.first_usage.instant
                /\ \E k \in bucket : data[k].end_time = u.last_usage.instant
                /\ \A k \in bucket : data[k].end_time <= u.last_usage.instant
                /\ u.net_active_time =
                      (u.last_usage.instant - u.first_usage.instant) - total

\* a day whose breaks outweigh its span: the net active time is negative
C6_Witness ==
    /\ Analyzed
    /\ \E i \in Days :
          /\ daily_analysis[i].usage.breaks # <<>>
          /\ daily_analysis[i].usage.net_active_time < 0

DayTotal(i) == daily_analysis[i].usage.total_usage

\* C7: every weekly entry's total_usage is the sum of total_usage over the
\* daily entries whose date has its ISO week number, whatever their year,
\* and every daily entry is counted in exactly one weekly entry.
C7_WeeklyTotalIsSumOfDays ==
    pc = "run_tui" =>
        /\ \A j \in Weeks :
              weekly_analysis[j].usage.total_usage =
                 SumOver({i \in Days :
                            IsoWeek(daily_analysis[i].date) = weekly_analysis[j].week},
                         [i \in Days |-> DayTotal(i)])
        /\ \A i \in Days :
              Cardinality({j \in Weeks :
                  weekly_analysis[j].week = IsoWeek(daily_analysis[i].date)}) = 1

\* a weekly entry that sums days of two different years
C7_Witness ==
    /\ pc = "run_tui"
    /\ \E j \in Weeks : \E i1, i2 \in Days :
          /\ IsoWeek(daily_analysis[i1].date) = weekly_analysis[j].week
          /\ IsoWeek(daily_analysis[i2].date) = weekly_analysis[j].week
          /\ daily_analysis[i1].date - daily_analysis[i2].date > 31 * DaysPerWeek
          /\ weekly_analysis[j].usage.total_usage = DayTotal(i1) + DayTotal(i2)
          /\ Len(daily_analysis) = 3

\* the command a key stands for (spec 6: Render/Input Backend)
Command(r) ==
    IF ~(r.ok /\ r.kind = "Key") THEN "Other"
    ELSE CASE r.code = "Left" -> "SelectDailyTab"
           [] r.code = "Right" -> "SelectWeeklyTab"
           [] r.code = "Up" -> "MoveUp"
           [] r.code = "Down" -> "MoveDown"
           [] r.code \in {"Esc", "q"} -> "Quit"
           [] OTHER -> "Other"

Max(a, b) == IF a >= b THEN a ELSE b

Min(a, b) == IF a <= b THEN a ELSE b

\* the transition table of spec 4.3
Table(tab, index, command, d, w) ==
    CASE command = "SelectDailyTab" -> [tab |-> 0, index |-> 0]
      [] command = "SelectWeeklyTab" -> [tab |-> 1, index |-> 0]
      [] command = "MoveUp" -> [tab |-> tab, index |-> Max(index - 1, 0)]
      [] command = "MoveDown" ->
            [tab |-> tab,
             index |-> Min(index + 1, Max((IF tab = 0 THEN d ELSE w) - 1, 0))]
      [] OTHER -> [tab |-> tab, index |-> index]

\* C8: every step that handles what event::read returned leaves the tab and
\* the index the transition table gives for the command, and leaves the loop
\* exactly on Quit.
C8_KeyHandlingFollowsTable ==
    [][pc = "read" =>
          LET command == Command(backend')
              t == Table(selected_tab, selected_index, command,
                         Len(daily_analysis), Len(weekly_analysis))
          IN  /\ selected_tab' = t.tab
              /\ selected_index' = t.index
              /\ (pc' = "restore") = (command = "Quit")
              /\ (pc' = "draw") = (command # "Quit")]_vars

\* Up was pressed on row 0 of a daily tab of three rows
C8_Witness ==
    /\ pc = "draw" /\ backend.call = "read" /\ backend.code = "Up"
    /\ selected_tab = 0 /\ selected_index = 0
    /\ Len(daily_analysis) = 3

RECURSIVE Permutations(_)
Permutations(s) ==
    IF s = <<>> THEN {<<>>}
    ELSE UNION {{<<s[k]>> \o p :
                    p \in Permutations([j \in 1..(Len(s) - 1) |->
                                          IF j < k THEN s[j] ELSE s[j + 1]])} :
                k \in 1..Len(s)}

\* C9: analyze_usage gives the same daily entries for every order of the
\* same events (stated here for the events that do not end before they
\* start, the inputs the data model admits).
C9_OrderIndependent ==
    (Analyzed /\ WellFormed(data)) =>
        \A p \in Permutations(data) : analyze_usage(p, utc_offset) = daily_analysis

\* C10: when no event ends before it starts, every break of every day lies
\* within [first_usage, last_usage], the breaks together are no longer than
\* last_usage - first_usage, and net_active_time is not negative.
C10_BreaksWithinSpan ==
    (Analyzed /\ WellFormed(data)) =>
        \A i \in Days :
            LET u == daily_analysis[i].usage
                total == SumOver(DOMAIN u.breaks,
                                 [j \in DOMAIN u.breaks |-> u.breaks[j].duration])
            IN  /\ \A j \in 1..Len(u.breaks) :
                      /\ u.first_usage.instant <= u.breaks[j].start.instant
                      /\ u.breaks[j].end.instant <= u.last_usage.instant
                /\ total <= u.last_usage.instant - u.first_usage.instant
                /\ u.net_active_time >= 0

\* overlapping sessions that still leave one break, and nothing else active
C10_Witness ==
    /\ Analyzed /\ WellFormed(data) /\ Len(data) = 3
    /\ \E i \in Days :
          /\ Len(daily_analysis[i].usage.breaks) = 1
          /\ Cardinality(BucketOf(daily_analysis[i].date)) = 3
          /\ daily_analysis[i].usage.net_active_time = 0

====
